---- MODULE Spec2Model ----
(***************************************************************************)
(* The Ribasim launchers: build/cli (loads libribasim and calls execute),  *)
(* build/cli_wrapper (argument handling only, body still todo!()) and      *)
(* compile/cli_wrapper (re-executes bin/ribasim.exe).                      *)
(*                                                                         *)
(* Text is a sequence of units.  A unit is either an ordinary token or     *)
(* Invalid, a unit that is not valid Unicode (a stray byte on unix, an     *)
(* unpaired surrogate on windows).  An Option is a sequence of length 0    *)
(* (None) or 1 (Some).                                                     *)
(***************************************************************************)
EXTENDS Integers, Sequences, FiniteSets, TLC

\* ---------------------------------------------------------------- bounds
MaxLen == 1      \* longest environment value and --threads value, in units
MaxCores == 2    \* largest physical core count of the host
MaxStatus == 2   \* statuses -MaxStatus..MaxStatus are tried besides the edge values

\* ------------------------------------------------------------- constants
FAILURE == 1           \* std::process::ExitCode::FAILURE
PANIC_EXIT == 101      \* exit status of a Rust process whose main thread panicked
CLAP_USAGE_EXIT == 2   \* exit status of clap's Error::exit for a usage error
INT32_MIN == -2147483647 - 1
INT32_MAX == 2147483647

\* ------------------------------------------------------------------ text
Invalid == "<not-unicode>"
REPLACEMENT == "U+FFFD"

None == <<>>
Some(v) == <<v>>
IsSome(o) == Len(o) = 1
Get(o) == o[1]

IsUnicode(s) == \A i \in DOMAIN s : s[i] # Invalid

\* Path::display(): lossy conversion, every ill-formed unit becomes U+FFFD
display(p) == [i \in DOMAIN p |-> IF p[i] = Invalid THEN REPLACEMENT ELSE p[i]]

\* Path::to_str(): None unless the whole path is valid Unicode
to_str(p) == IF IsUnicode(p) THEN Some(p) ELSE None

\* Path::join with a relative component
join(p, rel) == p \o <<"/">> \o rel

\* env::var(key): Err both when the variable is absent and when its value
\* is not valid Unicode
env_var(e, key) ==
    IF ~IsSome(e[key]) THEN [ok |-> FALSE, err |-> "NotPresent", val |-> <<>>]
    ELSE IF ~IsUnicode(Get(e[key])) THEN [ok |-> FALSE, err |-> "NotUnicode", val |-> <<>>]
    ELSE [ok |-> TRUE, err |-> "", val |-> Get(e[key])]

unwrap_or_default(r) == IF r.ok THEN r.val ELSE <<>>

\* env::set_var(key, value)
set_var(e, key, value) == [e EXCEPT ![key] = Some(value)]

\* A cast that saturates at the ends of 0..255 instead of wrapping
as_u8_saturating(x) == IF x < 0 THEN 0 ELSE IF x > 255 THEN 255 ELSE x

\* `x as u8` for an i32 x: the low 8 bits of the two's-complement pattern.
\* A negative x has the pattern NOT(-(x+1)), whose low byte is 255 minus the
\* low byte of -(x+1)
as_u8(x) == IF x >= 0 THEN x % 256 ELSE 255 - ((-(x + 1)) % 256)

\* num_cpus::get_physical().to_string()
to_string(n) == <<ToString(n)>>

\* ------------------------------------------------------------ input sets
Strings(units, n) == UNION {[1..k -> units] : k \in 0..n}
EnvValue == Strings({"4", Invalid}, MaxLen)
SearchPaths == {<<"a", ";", "b">>, <<"a", ";", Invalid>>}
EnvKeys == {"PATH", "LD_LIBRARY_PATH", "JULIA_NUM_THREADS"}
Option(S) == {None} \cup {Some(v) : v \in S}
Environments ==
    {[k \in EnvKeys |-> CASE k = "PATH" -> p
                          [] k = "LD_LIBRARY_PATH" -> l
                          [] OTHER -> j] :
        p \in Option(SearchPaths), l \in Option(SearchPaths), j \in Option(EnvValue)}
Paths == {<<"model.toml">>, <<Invalid>>}
ExeDirs == {<<"opt", "/", "ribasim">>, <<"opt", "/", Invalid>>}
Platforms == {"windows", "linux", "macos", "freebsd"}
Variants == {"cli", "cli_wrapper", "compile_wrapper"}
Argvs == [toml_path : Option(Paths), threads : Option(EnvValue)]
Status == (-MaxStatus..MaxStatus) \cup {INT32_MIN, -257, -256, -1, 255, 256, 260, INT32_MAX}
InitStatus == {-1, 0, 1}
ChildCodes == {0, 1, 3, 255}

VARIABLES
    variant,     \* which launcher binary runs
    OS,          \* std::env::consts::OS
    exe_dir,     \* directory of the running executable
    argv,        \* the command line after the program name
    env,         \* the process environment
    env0,        \* the environment at startup
    pc,          \* position in main
    cli,         \* Option of the parsed Cli struct
    fileOk,      \* "unchecked", "ok" or "missing": result of toml_path.is_file()
    lib,         \* "none", "loaded" or "unloaded": the libloading::Library
    initRet,     \* Option: status returned by jl_init_with_image_file
    initArgs,    \* Option: the two strings passed to jl_init_with_image_file
    exit_code,   \* Option: status returned by execute
    executeArg,  \* Option: the string passed to execute
    processExit, \* Option: exit status of the launcher process
    stderr,      \* diagnostics written to standard error
    fatal,       \* why the launch ended without an engine status, or "none"
    trace        \* the observable steps taken so far

vars == <<variant, OS, exe_dir, argv, env, env0, pc, cli, fileOk, lib, initRet,
          initArgs, exit_code, executeArg, processExit, stderr, fatal, trace>>

engineVars == <<lib, initRet, initArgs, exit_code, executeArg>>
inputVars == <<variant, OS, exe_dir, argv, env0>>

Init ==
    /\ variant \in Variants
    /\ OS \in Platforms
    /\ exe_dir \in ExeDirs
    /\ argv \in Argvs
    /\ env \in Environments
    /\ env0 = env
    /\ pc = "start"
    /\ cli = None
    /\ fileOk = "unchecked"
    /\ lib = "none"
    /\ initRet = None
    /\ initArgs = None
    /\ exit_code = None
    /\ executeArg = None
    /\ processExit = None
    /\ stderr = <<>>
    /\ fatal = "none"
    /\ trace = <<>>

\* --------------------------------------------------------------- helpers
Count(ev) == Cardinality({i \in DOMAIN trace : trace[i] = ev})
Happened(ev) == \E i \in DOMAIN trace : trace[i] = ev

\* The library search path: "<bin><sep><prior value or empty>"
search_path(bin, sep, e, key) == display(bin) \o <<sep>> \o unwrap_or_default(env_var(e, key))

\* Drop of the Library value while a scope is left (normally or by unwinding)
drop_lib(l) == IF l = "loaded" THEN "unloaded" ELSE l
drop_events(l) == IF l = "loaded" THEN <<"unload">> ELSE <<>>

\* A panic that aborts the process without unwinding: nothing is dropped
PanicAbort(cause) ==
    /\ pc' = "exited"
    /\ processExit' = Some(PANIC_EXIT)
    /\ stderr' = Append(stderr, "panic")
    /\ fatal' = cause
    /\ lib' = lib
    /\ trace' = trace \o <<"exit">>

\* A panic on the main thread: message on stderr, locals dropped while the
\* stack unwinds, process status 101
Panic(cause) ==
    /\ pc' = "exited"
    /\ processExit' = Some(PANIC_EXIT)
    /\ stderr' = Append(stderr, "panic")
    /\ fatal' = cause
    /\ lib' = drop_lib(lib)
    /\ trace' = trace \o drop_events(lib) \o <<"exit">>

\* ------------------------------------------------- build/cli, cli_wrapper
\* The whole environment configuration done up front: the default thread
\* count is written together with the search path, before the arguments
\* are parsed
SetSearchPathAndThreads ==
    /\ pc = "start"
    /\ variant \in {"cli", "cli_wrapper"}
    /\ LET e1 == IF OS = "windows"
                 THEN set_var(env, "PATH",
                              search_path(join(exe_dir, <<"bin">>), ";", env, "PATH"))
                 ELSE env
           t1 == IF OS = "windows" THEN Append(trace, "set_var:PATH") ELSE trace
       IN  IF ~env_var(env, "JULIA_NUM_THREADS").ok
           THEN /\ env' = set_var(e1, "JULIA_NUM_THREADS", to_string(1))
                /\ trace' = Append(t1, "set_var:JULIA_NUM_THREADS")
           ELSE /\ env' = e1
                /\ trace' = t1
    /\ pc' = "parse"
    /\ UNCHANGED <<inputVars, engineVars, cli, fileOk, processExit, stderr, fatal>>

SetSearchPath ==
    /\ pc = "start"
    /\ variant \in {"cli", "cli_wrapper"}
    /\ IF OS = "windows"
       THEN /\ env' = set_var(env, "PATH", search_path(join(exe_dir, <<"bin">>), ";", env, "PATH"))
            /\ trace' = Append(trace, "set_var:PATH")
       ELSE UNCHANGED <<env, trace>>
    /\ pc' = "parse"
    /\ UNCHANGED <<inputVars, engineVars, cli, fileOk, processExit, stderr, fatal>>

\* Cli::parse(): toml_path is a required positional; --threads exists only
\* in build/cli and is a String, so it must be valid Unicode
ParseOk ==
    /\ IsSome(argv.toml_path)
    /\ IsSome(argv.threads) => (variant = "cli" /\ IsUnicode(Get(argv.threads)))

ParseArgs ==
    /\ pc = "parse"
    /\ IF ParseOk
       THEN /\ cli' = Some([toml_path |-> Get(argv.toml_path), threads |-> argv.threads])
            /\ pc' = "check"
            /\ trace' = Append(trace, "parse")
            /\ UNCHANGED <<processExit, stderr, fatal>>
       ELSE /\ pc' = "exited"
            /\ processExit' = Some(CLAP_USAGE_EXIT)
            /\ stderr' = Append(stderr, "usage")
            /\ fatal' = "arguments"
            /\ trace' = trace \o <<"exit">>
            /\ UNCHANGED cli
    /\ UNCHANGED <<inputVars, engineVars, env, fileOk>>

\* The check with its early return forgotten: the message is printed and
\* the launch goes on
CheckFileNoReturn ==
    /\ pc = "check"
    /\ \E is_file \in BOOLEAN :
         /\ fileOk' = IF is_file THEN "ok" ELSE "missing"
         /\ stderr' = IF is_file THEN stderr ELSE Append(stderr, "File not found")
         /\ pc' = IF variant = "cli" THEN "threads" ELSE "todo"
         /\ trace' = Append(trace, "check")
         /\ UNCHANGED <<processExit, fatal>>
    /\ UNCHANGED <<inputVars, engineVars, env, cli>>

CheckFile ==
    /\ pc = "check"
    /\ \E is_file \in BOOLEAN :
         IF ~is_file
         THEN /\ fileOk' = "missing"
              /\ stderr' = Append(stderr, "File not found")
              /\ pc' = "exited"
              /\ processExit' = Some(FAILURE)
              /\ fatal' = "file_not_found"
              /\ trace' = trace \o <<"check", "exit">>
         ELSE /\ fileOk' = "ok"
              /\ pc' = IF variant = "cli" THEN "threads" ELSE "todo"
              /\ trace' = Append(trace, "check")
              /\ UNCHANGED <<stderr, processExit, fatal>>
    /\ UNCHANGED <<inputVars, engineVars, env, cli>>

\* build/cli_wrapper: the call into the library is not written yet
Todo ==
    /\ pc = "todo"
    /\ Panic("not_implemented")
    /\ UNCHANGED <<inputVars, env, cli, fileOk, initRet, initArgs, exit_code, executeArg>>

\* The precedence reversed: a variable that is already set wins over the
\* --threads option
ConfigureThreadsEnvFirst ==
    /\ pc = "threads"
    /\ \E cores \in 1..MaxCores :
         IF env_var(env, "JULIA_NUM_THREADS").ok
         THEN UNCHANGED <<env, trace>>
         ELSE /\ env' = set_var(env, "JULIA_NUM_THREADS",
                                IF IsSome(Get(cli).threads) THEN Get(Get(cli).threads)
                                ELSE to_string(cores))
              /\ trace' = Append(trace, "set_var:JULIA_NUM_THREADS")
    /\ pc' = "resolve"
    /\ UNCHANGED <<inputVars, engineVars, cli, fileOk, processExit, stderr, fatal>>

ConfigureThreads ==
    /\ pc = "threads"
    /\ \E cores \in 1..MaxCores :
         IF IsSome(Get(cli).threads)
         THEN /\ env' = set_var(env, "JULIA_NUM_THREADS", Get(Get(cli).threads))
              /\ trace' = Append(trace, "set_var:JULIA_NUM_THREADS")
         ELSE IF ~env_var(env, "JULIA_NUM_THREADS").ok
         THEN /\ env' = set_var(env, "JULIA_NUM_THREADS", to_string(cores))
              /\ trace' = Append(trace, "set_var:JULIA_NUM_THREADS")
         ELSE UNCHANGED <<env, trace>>
    /\ pc' = "resolve"
    /\ UNCHANGED <<inputVars, engineVars, cli, fileOk, processExit, stderr, fatal>>

shared_lib_path(os) ==
    CASE os = "windows" -> Some(<<"bin", "/", "libribasim.dll">>)
      [] os = "linux" -> Some(<<"lib", "/", "libribasim.so">>)
      [] os = "macos" -> Some(<<"lib", "/", "libribasim.dylib">>)
      [] OTHER -> None

ResolveLibPath ==
    /\ pc = "resolve"
    /\ IF IsSome(shared_lib_path(OS))
       THEN /\ pc' = "load"
            /\ trace' = Append(trace, "resolve")
            /\ UNCHANGED <<lib, processExit, stderr, fatal>>
       ELSE Panic("unsupported_platform")
    /\ UNCHANGED <<inputVars, env, cli, fileOk, initRet, initArgs, exit_code, executeArg>>

LoadLibrary ==
    /\ pc = "load"
    /\ \E loads \in BOOLEAN :
         IF loads
         THEN /\ lib' = "loaded"
              /\ pc' = "get_init"
              /\ trace' = Append(trace, "load")
              /\ UNCHANGED <<processExit, stderr, fatal>>
         ELSE Panic("load_failed")
    /\ UNCHANGED <<inputVars, env, cli, fileOk, initRet, initArgs, exit_code, executeArg>>

ResolveInit ==
    /\ pc = "get_init"
    /\ \E found \in BOOLEAN :
         IF found
         THEN /\ pc' = "call_init"
              /\ trace' = Append(trace, "get:jl_init_with_image_file")
              /\ UNCHANGED <<lib, processExit, stderr, fatal>>
         ELSE Panic("symbol_missing")
    /\ UNCHANGED <<inputVars, env, cli, fileOk, initRet, initArgs, exit_code, executeArg>>

\* The call-and-check variant: a non-zero init status ends the launch
CallInitChecked ==
    /\ pc = "call_init"
    /\ IF IsSome(to_str(exe_dir))
       THEN \E ret \in InitStatus :
              /\ initArgs' = Some(<<Get(to_str(exe_dir)), Get(shared_lib_path(OS))>>)
              /\ initRet' = Some(ret)
              /\ IF ret = 0
                 THEN /\ pc' = "get_execute"
                      /\ trace' = Append(trace, "call:jl_init_with_image_file")
                      /\ UNCHANGED <<lib, processExit, stderr, fatal>>
                 ELSE /\ pc' = "exited"
                      /\ processExit' = Some(FAILURE)
                      /\ stderr' = Append(stderr, "init failed")
                      /\ fatal' = "init_failed"
                      /\ lib' = drop_lib(lib)
                      /\ trace' = trace \o <<"call:jl_init_with_image_file">>
                                        \o drop_events(lib) \o <<"exit">>
       ELSE /\ Panic("path_encoding")
            /\ UNCHANGED <<initArgs, initRet>>
    /\ UNCHANGED <<inputVars, env, cli, fileOk, exit_code, executeArg>>

CallInit ==
    /\ pc = "call_init"
    /\ IF IsSome(to_str(exe_dir))
       THEN \E ret \in InitStatus :
              /\ initArgs' = Some(<<Get(to_str(exe_dir)), Get(shared_lib_path(OS))>>)
              /\ initRet' = Some(ret)
              /\ pc' = "get_execute"
              /\ trace' = Append(trace, "call:jl_init_with_image_file")
              /\ UNCHANGED <<lib, processExit, stderr, fatal>>
       ELSE /\ Panic("path_encoding")
            /\ UNCHANGED <<initArgs, initRet>>
    /\ UNCHANGED <<inputVars, env, cli, fileOk, exit_code, executeArg>>

ResolveExecute ==
    /\ pc = "get_execute"
    /\ \E found \in BOOLEAN :
         IF found
         THEN /\ pc' = "call_execute"
              /\ trace' = Append(trace, "get:execute")
              /\ UNCHANGED <<lib, processExit, stderr, fatal>>
         ELSE Panic("symbol_missing")
    /\ UNCHANGED <<inputVars, env, cli, fileOk, initRet, initArgs, exit_code, executeArg>>

CallExecute ==
    /\ pc = "call_execute"
    /\ IF IsSome(to_str(Get(cli).toml_path))
       THEN \E ret \in Status :
              /\ executeArg' = Some(Get(to_str(Get(cli).toml_path)))
              /\ exit_code' = Some(ret)
              /\ pc' = "return"
              /\ trace' = Append(trace, "call:execute")
              /\ UNCHANGED <<lib, processExit, stderr, fatal>>
       ELSE /\ Panic("path_encoding")
            /\ UNCHANGED <<exit_code, executeArg>>
    /\ UNCHANGED <<inputVars, env, cli, fileOk, initRet, initArgs>>

\* ExitCode::from(exit_code as u8); the locals of the unsafe block, the
\* Library last, are dropped as the block is left
Return ==
    /\ pc = "return"
    /\ processExit' = Some(as_u8(Get(exit_code)))
    /\ lib' = drop_lib(lib)
    /\ trace' = trace \o drop_events(lib) \o <<"exit">>
    /\ pc' = "exited"
    /\ UNCHANGED <<inputVars, env, cli, fileOk, initRet, initArgs, exit_code,
                   executeArg, stderr, fatal>>

\* ---------------------------------------------------- compile/cli_wrapper
bin_path == join(exe_dir, <<"bin">>)

WrapperSetSearchPath ==
    /\ pc = "start"
    /\ variant = "compile_wrapper"
    /\ IF OS = "windows"
       THEN /\ env' = set_var(env, "PATH", search_path(bin_path, ";", env, "PATH"))
            /\ trace' = Append(trace, "set_var:PATH")
       ELSE /\ env' = set_var(env, "LD_LIBRARY_PATH",
                              search_path(bin_path, ":", env, "LD_LIBRARY_PATH"))
            /\ trace' = Append(trace, "set_var:LD_LIBRARY_PATH")
    /\ pc' = "spawn"
    /\ UNCHANGED <<inputVars, engineVars, cli, fileOk, processExit, stderr, fatal>>

\* Command::new(bin/ribasim.exe).args(args).status(), then
\* exit(status.code().unwrap_or(1))
WrapperRunChild ==
    /\ pc = "spawn"
    /\ \/ /\ Panic("spawn_failed")
       \/ \E code \in Option(ChildCodes) :
            /\ processExit' = Some(IF IsSome(code) THEN Get(code) ELSE 1)
            /\ pc' = "exited"
            /\ trace' = trace \o <<"child", "exit">>
            /\ UNCHANGED <<lib, stderr, fatal>>
    /\ UNCHANGED <<inputVars, env, cli, fileOk, initRet, initArgs, exit_code, executeArg>>

Next ==
    \/ SetSearchPath
    \/ ParseArgs
    \/ CheckFile
    \/ Todo
    \/ ConfigureThreads
    \/ ResolveLibPath
    \/ LoadLibrary
    \/ ResolveInit
    \/ CallInit
    \/ ResolveExecute
    \/ CallExecute
    \/ Return
    \/ WrapperSetSearchPath
    \/ WrapperRunChild

Spec == Init /\ [][Next]_vars

\* ================================================================ claims
Launcher == variant \in {"cli", "cli_wrapper"}
Exited == pc = "exited"
NoArguments == argv.toml_path = None /\ argv.threads = None
PriorValue(key) == IF IsSome(env0[key]) THEN Get(env0[key]) ELSE <<>>
Ordered(a, b) == \A i, j \in DOMAIN trace : (trace[i] = a /\ trace[j] = b) => i < j
EngineEvents == {"get:jl_init_with_image_file", "call:jl_init_with_image_file",
                 "get:execute", "call:execute"}
InternalFatal == {"file_not_found", "unsupported_platform", "load_failed",
                  "symbol_missing", "path_encoding"}

\* C1: every internal fatal condition of a launch (missing config file,
\* unsupported platform, library load failure, unresolvable symbol, path
\* encoding failure) ends the process with exit code exactly 1.
C1_FatalExitsWithFailure ==
    (variant = "cli" /\ Exited /\ fatal \in InternalFatal) => processExit = Some(FAILURE)

\* C2: when execute returned, the process exit code is the returned int32
\* status reduced to its low 8 bits: it lies in 0..255 and is congruent to
\* the status modulo 256 (0 -> 0, 2 -> 2, 255 -> 255, 260 -> 4, -1 -> 255);
\* values outside 0..255 wrap, they are not clamped.
C2_ExitIsLowByte ==
    (variant = "cli" /\ Exited /\ IsSome(exit_code)) =>
        /\ IsSome(processExit)
        /\ Get(processExit) \in 0..255
        /\ Get(processExit) % 256 = Get(exit_code) % 256
        /\ (Get(exit_code) = 0 => Get(processExit) = 0)
        /\ (Get(exit_code) = 2 => Get(processExit) = 2)
        /\ (Get(exit_code) = 255 => Get(processExit) = 255)
        /\ (Get(exit_code) = 260 => Get(processExit) = 4)
        /\ (Get(exit_code) = -1 => Get(processExit) = 255)

C2_Witness ==
    variant = "cli" /\ Exited /\ exit_code = Some(260) /\ processExit = Some(4)

\* C3: with an explicit --threads V, JULIA_NUM_THREADS equals V from the end
\* of environment configuration (before the library is loaded) until the
\* process ends, whatever the variable held at startup.
Configured == variant = "cli" /\ fileOk = "ok" /\ pc # "threads"

C3_ExplicitThreadsWin ==
    (Configured /\ IsSome(argv.threads)) => env["JULIA_NUM_THREADS"] = argv.threads

C3_Witness ==
    /\ Configured /\ IsSome(argv.threads) /\ lib = "loaded"
    /\ IsSome(env0["JULIA_NUM_THREADS"])
    /\ env0["JULIA_NUM_THREADS"] # argv.threads
    /\ env["JULIA_NUM_THREADS"] = argv.threads

\* C4: without --threads, a JULIA_NUM_THREADS that is set at startup is never
\* written by the launcher: it keeps its startup value in every state.
C4_PresetThreadsUntouched ==
    (variant = "cli" /\ argv.threads = None /\ IsSome(env0["JULIA_NUM_THREADS"])) =>
        env["JULIA_NUM_THREADS"] = env0["JULIA_NUM_THREADS"]

\* C5: a launch with zero arguments asks for the path with a file chooser, so
\* it can end before any file check only by the user's cancel, and then with
\* exit code 1 and nothing on standard error.
C5_NoArgumentsEndSilently ==
    (variant = "cli" /\ NoArguments /\ Exited /\ fileOk = "unchecked") =>
        (processExit = Some(FAILURE) /\ stderr = <<>>)

\* C6: once the library search-path variable has been written it holds the
\* launcher's bin directory, the platform separator and the complete startup
\* value of the variable (empty when unset), in that order and nothing else.
C6_SearchPathPrepended ==
    /\ Happened("set_var:PATH") =>
          env["PATH"] = Some(join(exe_dir, <<"bin">>) \o <<";">> \o PriorValue("PATH"))
    /\ Happened("set_var:LD_LIBRARY_PATH") =>
          env["LD_LIBRARY_PATH"] =
              Some(join(exe_dir, <<"bin">>) \o <<":">> \o PriorValue("LD_LIBRARY_PATH"))

\* C7: the library load, every symbol resolution, the init call and the
\* execute call happen only after toml_path.is_file() succeeded, and none of
\* them happens in a launch where the check failed.
C7_ValidatedBeforeEngine ==
    variant = "cli" =>
        /\ (pc \in {"load", "get_init", "call_init", "get_execute", "call_execute", "return"}
              => fileOk = "ok")
        /\ \A ev \in EngineEvents \cup {"load"} :
              Happened(ev) => (fileOk = "ok" /\ Happened("check") /\ Ordered("check", ev))
        /\ (lib # "none" \/ IsSome(initRet) \/ IsSome(exit_code)) => fileOk = "ok"
        /\ fatal \in {"load_failed", "symbol_missing", "path_encoding"} => fileOk = "ok"
        /\ fileOk = "missing" => (Exited /\ lib = "none" /\ ~Happened("load"))

C7_Witness ==
    variant = "cli" /\ Happened("call:execute") /\ fileOk = "ok" /\ Ordered("check", "load")

\* C8: the library handle brackets the engine calls and is released exactly
\* once: symbols are resolved and called only between the load and the
\* unload, execute is called at most once, and every launch that loaded the
\* library (success, fatal failure after load, non-zero status) has unloaded
\* it exactly once when the process ends.
C8_HandleBracketsCalls ==
    /\ Count("load") <= 1
    /\ Count("unload") <= Count("load")
    /\ Count("call:execute") <= 1
    /\ \A ev \in EngineEvents :
          Happened(ev) => (Happened("load") /\ Ordered("load", ev) /\ Ordered(ev, "unload"))
    /\ (lib = "loaded") = (Count("load") = 1 /\ Count("unload") = 0)
    /\ (lib = "unloaded") = (Count("unload") = 1)
    /\ (Exited /\ Happened("load")) =>
          (Count("unload") = 1 /\ lib = "unloaded" /\ Ordered("unload", "exit"))

C8_Witness ==
    /\ Exited /\ fatal = "symbol_missing" /\ Happened("call:jl_init_with_image_file")
    /\ Count("load") = 1 /\ Count("unload") = 1

\* C9 as stated: no environment variable is written before argument parsing
\* and the file-existence check succeeded, and every write precedes the load.
C9_NoWriteBeforeValidation ==
    Launcher =>
        /\ fileOk # "ok" => env = env0
        /\ \A k \in EnvKeys : Ordered("parse", "set_var:" \o k) /\ Ordered("check", "set_var:" \o k)
        /\ \A k \in EnvKeys : Ordered("set_var:" \o k, "load")

\* C9 amended: the steps occur in the order search path (windows only),
\* argument parsing, file check, thread-count configuration, library path,
\* load, init, execute, exit.  JULIA_NUM_THREADS is never written before
\* parsing and the file check succeeded; PATH is written first of all, on
\* windows only; every environment write precedes the library load.
StepOrder == <<"set_var:PATH", "parse", "check", "set_var:JULIA_NUM_THREADS", "resolve",
               "load", "get:jl_init_with_image_file", "call:jl_init_with_image_file",
               "get:execute", "call:execute", "unload", "exit">>

StepIndex(ev) == CHOOSE m \in DOMAIN StepOrder : StepOrder[m] = ev

C9_WritePhases ==
    Launcher =>
        /\ \A i \in DOMAIN trace : \E m \in DOMAIN StepOrder : trace[i] = StepOrder[m]
        /\ \A i \in 1..(Len(trace) - 1) : StepIndex(trace[i]) < StepIndex(trace[i + 1])
        /\ fileOk # "ok" =>
              /\ env["JULIA_NUM_THREADS"] = env0["JULIA_NUM_THREADS"]
              /\ env["LD_LIBRARY_PATH"] = env0["LD_LIBRARY_PATH"]
              /\ OS # "windows" => env = env0
        /\ (OS = "windows" /\ pc # "start") => Happened("set_var:PATH")
        /\ (lib # "none" /\ OS # "windows") =>
              \A k \in EnvKeys \ {"JULIA_NUM_THREADS"} : env[k] = env0[k]

C9_Witness ==
    /\ variant = "cli" /\ OS = "windows" /\ Exited /\ fatal = "file_not_found"
    /\ env["PATH"] # env0["PATH"]
    /\ env["JULIA_NUM_THREADS"] = env0["JULIA_NUM_THREADS"]

\* C10: jl_init_with_image_file is called exactly once, after the load and
\* before execute, with the launcher's directory and the relative library
\* path; its status is ignored: no launch ends because of it, execute is still
\* called once and the exit code is the low byte of execute's status alone.
C10_InitStatusIgnored ==
    variant = "cli" =>
        /\ Count("call:jl_init_with_image_file") <= 1
        /\ Happened("call:jl_init_with_image_file") =>
              /\ Ordered("load", "call:jl_init_with_image_file")
              /\ IsSome(initRet)
              /\ initArgs = Some(<<exe_dir, Get(shared_lib_path(OS))>>)
        /\ Happened("call:execute") =>
              /\ Count("call:jl_init_with_image_file") = 1
              /\ Ordered("call:jl_init_with_image_file", "call:execute")
        /\ (Exited /\ IsSome(initRet)) =>
              \/ /\ Count("call:execute") = 1
                 /\ Get(processExit) % 256 = Get(exit_code) % 256
                 /\ Get(processExit) \in 0..255
              \/ /\ Count("call:execute") = 0
                 /\ fatal \in {"symbol_missing", "path_encoding"}

C10_Witness ==
    /\ variant = "cli" /\ Exited /\ initRet = Some(-1)
    /\ exit_code = Some(0) /\ processExit = Some(0)
    /\ Count("call:jl_init_with_image_file") = 1 /\ Count("call:execute") = 1

====
